---- MODULE Spec2Model ----
(***************************************************************************)
(* PicoVFO: rotary-encoder quadrature decoder, switch debouncer and the    *)
(* ballistic step tuner (TunerIDI) of src/main.cpp, with the polling loop  *)
(* of main() that drains the encoder count into the tuner.                 *)
(***************************************************************************)
EXTENDS Integers, Sequences, FiniteSets, TLC

\* ------------------------------------------------------------------ bounds
\* Number of calls of TunerIDI::update in a run.
MaxCalls == 5
\* |detents| handed to TunerIDI::update when it is called directly.
MaxDetents == 2
\* Number of pin-change interrupts of the encoder lines in a run.
MaxIrqs == 4
\* Number of pin-change interrupts of the switch line in a run.
MaxEdges == 3
\* Number of iterations of the polling loop in a run.
MaxLoops == 3
\* Number of calls of RollingVelocity::update in a run.
MaxRvCalls == 3

\* --------------------------------------------------------- TunerIDI tables
\* static constexpr int steps[10]
steps == [i \in 0..9 |-> <<1, 10, 50, 100, 500, 1000, 2000, 5000, 10000, 20000>>[i + 1]]
\* static constexpr uint16_t up_ms[10]
up_ms == [i \in 0..9 |-> <<9999, 260, 200, 160, 120, 95, 80, 65, 55, 0>>[i + 1]]
\* down_ms with the threshold of rung 8 below up_ms[8]: no hysteresis there.
down_ms_tight == [i \in 0..9 |-> <<9999, 320, 250, 200, 160, 130, 110, 90, 50, 0>>[i + 1]]
\* static constexpr uint16_t down_ms[10]
down_ms == [i \in 0..9 |-> <<9999, 320, 250, 200, 160, 130, 110, 90, 75, 0>>[i + 1]]

fMin == 7000000
fMax == 7200000
\* double freqHz = 7'100'000.0
freqHzInit == 7100000
\* index of the last ladder rung (the "9" of current < 9)
LastRung == 9
\* "if (now_ms - last_move_ms > 150) current = 0"
IdleMs == 150
\* "if (idi < 70)"
FastMs == 70
\* "if (++fast_streak >= 3)"
FastStreakArm == 3
\* "turbo_until_ms = now_ms + 250"
TurboMs == 250
\* multiplier_from_idi: 300.0 / max(idi_ms, 50), clamped 1..8
MultNum == 300
MultFloorMs == 50
MultMin == 1
MultMax == 8
\* explicit RollingVelocity(double alpha_per_sec = 6.0)
alpha_per_sec == 6

\* uint32_t arithmetic on timestamps. now_ms is a uint32_t halved (main.cpp:392):
\* every timestamp is below 2^31, so now_ms + 250 never wraps, and a difference
\* a - b with a < b wraps to 2^32 - (b - a) > 2^31. That value is beyond the
\* integers of the model checker and is held as the largest one it has; the
\* code only compares idi with thresholds below 10000 and divides 300 by it.
U32Sub(a, b) == IF a >= b THEN a - b ELSE 2147483647

VARIABLES
  \* ---- TunerIDI (fields and the function statics of update)
  current,          \* int current: index into steps[]
  freqHz,           \* double freqHz (always integral: int deltaHz is added)
  turbo_until_ms,   \* uint32_t turbo_until_ms
  statics_init,     \* the function statics of update have been initialised
  last_move_ms,     \* static uint32_t last_move_ms
  last_detent_ms,   \* static uint32_t last_detent_ms
  fast_streak,      \* static int fast_streak
  \* ---- the last call of update: its arguments and locals
  detents,          \* argument detents
  call_ms,          \* argument now_ms
  idi,              \* local idi (0 on an idle call)
  step,             \* local step (0 on an idle call)
  mult,             \* local mult (0 on an idle call)
  ncalls,           \* number of calls of update so far
  current0,         \* current when the last call began
  freqHz0,          \* freqHz when the last call began
  scen,             \* progress of the three-detent scenario (-1: left it)
  reads,            \* indices at which the last call read steps, up_ms, down_ms
  \* ---- a spin at a constant rate (both 0 when update is not called that way)
  start_idi,        \* interval between the first two detents
  spin_idi,         \* interval between the detents after them
  \* ---- a walk of the encoder lines
  walk,             \* the codes sampled by the handler, oldest first (kept
                    \* only when the handler is run without the loop)
  \* ---- clock
  now,              \* to_ms_since_boot(get_absolute_time()) / 2
  \* ---- quadrature decoder
  encoder_count,    \* std::atomic<int> encoder_count
  saved_enc,        \* static uint8_t saved_enc
  enc_now,          \* local enc_now of the last encoder_callback
  enc_prev,         \* saved_enc when the last encoder_callback began
  n_irq,            \* encoder_callback invocations for CLK/DT so far
  produced,         \* net sum of the +1/-1 the decoder has added
  \* ---- switch debouncer
  button_pressed,   \* std::atomic<bool> button_pressed
  button_state,     \* std::atomic<bool> button_state (the latch)
  alarms,           \* pending add_alarm_in_ms(50, handle_switch): the edge
                    \* (1 rise, 0 fall) that scheduled each, oldest first
  hs_sched,         \* edge that scheduled the last handle_switch
  hs_r1,            \* first gpio_get(ENCODER_SWITCH) of the last handle_switch
  hs_r2,            \* second gpio_get(ENCODER_SWITCH) of the last handle_switch
  n_edges,          \* encoder_callback invocations for the switch so far
  n_confirm,        \* handle_switch invocations so far
  presses_raised,   \* press events raised so far
  \* ---- polling loop of main()
  loop_pc,          \* "update": at line 392, "clear": at line 394
  frequency,        \* uint64_t frequency
  taken,            \* sum of the encoder_count values the loop has read
  n_loops,          \* completed iterations
  si5351_freq,      \* last argument of si5351_set_freq (Hz * 100)
  display_freq,     \* frequency drawn by the last drawDisplay()
  iter_after_press, \* 0: no iteration began since the last press event,
                    \* 1: one began, 2: it completed
  \* ---- RollingVelocity (fixed point: rates in detents/sec * 1000, dt in ms)
  v_ema,            \* double v_ema
  rv_ret,           \* value returned by the last RollingVelocity::update
  rv_detents,       \* argument detents of the last RollingVelocity::update
  rv_dt,            \* argument dt of the last RollingVelocity::update
  v_ema0,           \* v_ema when the last RollingVelocity::update began
  n_rv              \* calls of RollingVelocity::update so far

tunerVars == <<current, freqHz, turbo_until_ms, statics_init, last_move_ms,
               last_detent_ms, fast_streak>>
callVars == <<detents, call_ms, idi, step, mult, ncalls, current0, freqHz0, scen,
              reads>>
spinVars == <<start_idi, spin_idi>>
encVars == <<encoder_count, saved_enc, enc_now, enc_prev, n_irq, produced>>
swVars == <<button_pressed, button_state, alarms, hs_sched, hs_r1, hs_r2,
            n_edges, n_confirm, presses_raised>>
loopVars == <<loop_pc, frequency, taken, n_loops, iter_after_press,
              si5351_freq, display_freq>>
velVars == <<v_ema, rv_ret, rv_detents, rv_dt, v_ema0, n_rv>>
vars == <<tunerVars, callVars, now, encVars, swVars, loopVars, velVars, spinVars, walk>>

Max(a, b) == IF a >= b THEN a ELSE b

\* ------------------------------------------------------- RollingVelocity
\* The doubles of RollingVelocity are held in fixed point with three decimal
\* digits: a rate r detents/sec is the integer 1000 * r, a factor in [0, 1] is
\* an integer in 0..1000, and dt is in milliseconds.

\* 1000 * e^(x / 1000) for x >= 0, summed from the power series of exp, each
\* term derived from the one before it, until the terms vanish.
RECURSIVE ExpSum(_, _, _)
ExpSum(x, k, term) ==
  IF term = 0 THEN 0
  ELSE term + ExpSum(x, k + 1, (term * x) \div (1000 * (k + 1)))

\* 1000 * std::exp(-alpha_per_sec * dt), dt in ms.
ExpNeg(dt) == 1000000 \div ExpSum(alpha_per_sec * dt, 0, 1000)

\* The magnitude forgotten: detents / dt for std::abs(detents) / dt.
NoAbs(d) == d

\* std::abs(detents)
Abs(d) == IF d < 0 THEN -d ELSE d

\* double RollingVelocity::update(int detents, double dt)
rv_update(det, dt) ==
  /\ rv_detents' = det
  /\ rv_dt' = dt
  /\ v_ema0' = v_ema
  /\ IF dt <= 0
     THEN v_ema' = v_ema /\ rv_ret' = v_ema
     ELSE LET v_instant == (Abs(det) * 1000000) \div dt
              alpha == 1000 - ExpNeg(dt)
              v == ((1000 - alpha) * v_ema + alpha * v_instant) \div 1000
          IN v_ema' = v /\ rv_ret' = v

\* double v_ema = 0.0;
VelInit ==
  /\ v_ema = 0 /\ rv_ret = 0 /\ rv_detents = 0 /\ rv_dt = 0 /\ v_ema0 = 0
  /\ n_rv = 0

\* ---------------------------------------------------------------- TunerIDI
\* multiplier_from_idi without the 50 ms floor under the interval.
multiplier_no_floor(idi_ms) ==
  LET m == MultNum \div Max(idi_ms, 1)
  IN IF m < MultMin THEN MultMin ELSE IF m > MultMax THEN MultMax ELSE m

\* static int multiplier_from_idi(uint32_t idi_ms)
multiplier_from_idi(idi_ms) ==
  LET m == MultNum \div Max(idi_ms, MultFloorMs)
  IN IF m < MultMin THEN MultMin ELSE IF m > MultMax THEN MultMax ELSE m

\* The promotion written with "if" for "while": one rung per update.
WalkUpOnce(c, i) == IF c < LastRung /\ i <= up_ms[c + 1] THEN c + 1 ELSE c

\* while (current < 9 && idi <= up_ms[current + 1]) ++current;
RECURSIVE WalkUp(_, _)
WalkUp(c, i) ==
  IF c < LastRung /\ i <= up_ms[c + 1] THEN WalkUp(c + 1, i) ELSE c

\* The table indices the promotion loop reads with its "current < 9 &&" left
\* out: up_ms[current + 1] is read on every test, also on rung 9.
UpReadsUnguarded(c, i) == {x + 1 : x \in c..WalkUp(c, i)}

\* Indices of up_ms read by the promotion loop begun on rung c: its condition
\* is tested on every rung from c to the one it stops on, and reads
\* up_ms[current + 1] only where current < 9 holds.
UpReads(c, i) == {x + 1 : x \in {y \in c..WalkUp(c, i) : y < LastRung}}

\* The demotion test with ">" for ">=".
RECURSIVE WalkDownStrict(_, _)
WalkDownStrict(c, i) ==
  IF c > 0 /\ i > down_ms[c] THEN WalkDownStrict(c - 1, i) ELSE c

\* The demotion written with "if" for "while": one rung per update.
WalkDownOnce(c, i) == IF c > 0 /\ i >= down_ms[c] THEN c - 1 ELSE c

\* while (current > 0 && idi >= down_ms[current]) --current;
RECURSIVE WalkDown(_, _)
WalkDown(c, i) ==
  IF c > 0 /\ i >= down_ms[c] THEN WalkDown(c - 1, i) ELSE c

\* Indices of down_ms read by the demotion loop begun on rung c: its condition
\* reads down_ms[current] on every rung from c down to the one it stops on
\* where current > 0 holds.
DownReads(c, i) == {x \in WalkDown(c, i)..c : x > 0}

\* Clamp without its second line (the upper bound forgotten).
ClampLowOnly(f) == IF f < fMin THEN fMin ELSE f

\* if (freqHz < fMin) freqHz = fMin; if (freqHz > fMax) freqHz = fMax;
Clamp(f) ==
  LET g == IF f < fMin THEN fMin ELSE f
  IN IF g > fMax THEN fMax ELSE g

\* The idle test with ">=" for ">".
IdleExpiredAt(t, lm) == U32Sub(t, lm) >= IdleMs

\* if (now_ms - last_move_ms > 150) current = 0;   (uint32_t subtraction)
IdleExpired(t, lm) == U32Sub(t, lm) > IdleMs

\* The fast test with a bound of 90 ms for 70.
IsFastWide(i) == i < FastMs + 20

\* if (idi < 70)
IsFast(i) == i < FastMs

\* The streak test with "fast_streak++" for "++fast_streak": arms one detent late.
StreakArmsLate(s) == s >= FastStreakArm

\* if (++fast_streak >= 3)
StreakArms(s) == s + 1 >= FastStreakArm

\* The turbo window test with "<=" for "<".
TurboStepAt(t, tu, c) ==
  IF t <= tu /\ c < LastRung THEN steps[c + 1] ELSE steps[c]

\* if (now_ms < turbo_until_ms && current < 9) step = steps[current + 1];
TurboStep(t, tu, c) ==
  IF t < tu /\ c < LastRung THEN steps[c + 1] ELSE steps[c]

\* Indices of steps read: int step = steps[current]; and, inside the turbo
\* window below rung 9, steps[current + 1].
StepReads(t, tu, c) ==
  {c} \cup (IF t < tu /\ c < LastRung THEN {c + 1} ELSE {})

\* deltaHz scaled by detents, as the comment above it in the source announces.
DeltaHzScaled(st, m, det) == st * m * det

\* int deltaHz = step * mult * (detents > 0 ? +1 : -1);
DeltaHz(st, m, det) == st * m * (IF det > 0 THEN 1 ELSE -1)

\* A local assigned on every call, for "static uint32_t x = now_ms;".
StaticEveryCall(inited, old, t) == t

\* static uint32_t x = now_ms; the initialiser runs on the first call only.
StaticInit(inited, old, t) == IF inited THEN old ELSE t

\* void TunerIDI::update(int detents, uint32_t now_ms)
update(det, t) ==
  LET lm == StaticInit(statics_init, last_move_ms, t)
      ld == StaticInit(statics_init, last_detent_ms, t)
  IN
  /\ statics_init' = TRUE
  /\ detents' = det
  /\ call_ms' = t
  /\ ncalls' = ncalls + 1
  /\ current0' = current
  /\ freqHz0' = freqHz
  /\ IF det = 0
     THEN /\ current' = IF IdleExpired(t, lm) THEN 0 ELSE current
          /\ last_move_ms' = lm
          /\ last_detent_ms' = ld
          /\ idi' = 0 /\ step' = 0 /\ mult' = 0
          /\ reads' = {}
          /\ UNCHANGED <<freqHz, turbo_until_ms, fast_streak>>
     ELSE LET i  == U32Sub(t, ld)
              c  == WalkDown(WalkUp(current, i), i)
              arm == IsFast(i) /\ StreakArms(fast_streak)
              tu == IF arm THEN t + TurboMs ELSE turbo_until_ms
              m  == multiplier_from_idi(i)
              st == TurboStep(t, tu, c)
          IN /\ idi' = i
             /\ last_detent_ms' = t
             /\ last_move_ms' = t
             /\ current' = c
             /\ fast_streak' = IF IsFast(i)
                               THEN (IF arm THEN 0 ELSE fast_streak + 1)
                               ELSE 0
             /\ turbo_until_ms' = tu
             /\ step' = st
             /\ mult' = m
             /\ freqHz' = Clamp(freqHz + DeltaHz(st, m, det))
             /\ reads' = UpReads(current, i) \cup DownReads(WalkUp(current, i), i)
                            \cup StepReads(t, tu, c)

TunerInit ==
  /\ current = 0
  /\ freqHz = freqHzInit
  /\ turbo_until_ms = 0
  /\ statics_init = FALSE
  /\ last_move_ms = 0
  /\ last_detent_ms = 0
  /\ fast_streak = 0
  /\ detents = 0 /\ call_ms = 0 /\ idi = 0 /\ step = 0 /\ mult = 0 /\ ncalls = 0
  /\ current0 = 0 /\ freqHz0 = freqHzInit
  /\ reads = {}


\* ---------------------------------------------------- quadrature decoder
\* The forward test with the skipped pair (0, 3) taken for a neighbour.
IsForwardLoose(p, n) ==
  (p = 2 /\ n = 3) \/ (p = 3 /\ n = 1) \/ (p = 1 /\ n = 0) \/ (p = 0 /\ n = 2)
  \/ (p = 0 /\ n = 3)

\* (enc_prev == 2 && enc_now == 3) || (enc_prev == 3 && enc_now == 1) || ...
IsForward(p, n) ==
  (p = 2 /\ n = 3) \/ (p = 3 /\ n = 1) \/ (p = 1 /\ n = 0) \/ (p = 0 /\ n = 2)

\* The reverse test with its last pair written (1, 2) for (1, 3).
IsReverseOff(p, n) ==
  (p = 3 /\ n = 2) \/ (p = 2 /\ n = 0) \/ (p = 0 /\ n = 1) \/ (p = 1 /\ n = 2)

\* (enc_prev == 3 && enc_now == 2) || (enc_prev == 2 && enc_now == 0) || ...
IsReverse(p, n) ==
  (p = 3 /\ n = 2) \/ (p = 2 /\ n = 0) \/ (p = 0 /\ n = 1) \/ (p = 1 /\ n = 3)

\* The handler storing the sampled code only when it counts the transition
\* ("saved_enc = enc_now" moved into the two branches).
encoder_callback_keep(code) ==
  /\ enc_now' = code
  /\ enc_prev' = saved_enc
  /\ IF IsForward(saved_enc, code)
     THEN /\ saved_enc' = code
          /\ encoder_count' = encoder_count + 1 /\ produced' = produced + 1
     ELSE IF IsReverse(saved_enc, code)
          THEN /\ saved_enc' = code
               /\ encoder_count' = encoder_count - 1 /\ produced' = produced - 1
          ELSE UNCHANGED <<saved_enc, encoder_count, produced>>

\* encoder_callback(gpio, events) for gpio == ENCODER_CLK || gpio == ENCODER_DT,
\* read_encoder_state() returning code.
encoder_callback_enc(code) ==
  /\ enc_now' = code
  /\ enc_prev' = saved_enc
  /\ IF code = saved_enc
     THEN UNCHANGED <<saved_enc, encoder_count, produced>>
     ELSE /\ saved_enc' = code
          /\ IF IsForward(saved_enc, code)
             THEN encoder_count' = encoder_count + 1 /\ produced' = produced + 1
             ELSE IF IsReverse(saved_enc, code)
                  THEN encoder_count' = encoder_count - 1 /\ produced' = produced - 1
                  ELSE UNCHANGED <<encoder_count, produced>>

\* ------------------------------------------------------- switch debouncer
\* encoder_callback(gpio, events) for gpio == ENCODER_SWITCH:
\* add_alarm_in_ms(50, handle_switch, nullptr, true)
encoder_callback_sw(edge) == alarms' = Append(alarms, edge)

\* handle_switch with the first line of an earlier variant of the program
\* (button_pressed = true before the latch is looked at).
handle_switch_always(r1, r2) ==
  /\ button_pressed' = TRUE
  /\ button_state' = IF r1 = 1 /\ button_state = FALSE THEN TRUE
                     ELSE IF r2 = 0 /\ button_state = TRUE THEN FALSE
                     ELSE button_state

\* long long int handle_switch(long int a, void* p); r1 and r2 are what its two
\* gpio_get(ENCODER_SWITCH) calls return.
handle_switch(r1, r2) ==
  IF r1 = 1 /\ button_state = FALSE
  THEN button_pressed' = TRUE /\ button_state' = TRUE
  ELSE IF r2 = 0 /\ button_state = TRUE
       THEN button_state' = FALSE /\ UNCHANGED button_pressed
       ELSE UNCHANGED <<button_pressed, button_state>>

\* bool update_clock = false; (never assigned again in the loop)
update_clock == FALSE
\* bool update_display = true;
update_display == TRUE

SysInit ==
  /\ encoder_count = 0 /\ saved_enc = 0 /\ enc_now = 0 /\ enc_prev = 0
  /\ n_irq = 0 /\ produced = 0
  /\ button_pressed = FALSE /\ button_state = FALSE /\ alarms = <<>>
  /\ hs_sched = 0 /\ hs_r1 = 0 /\ hs_r2 = 0
  /\ n_edges = 0 /\ n_confirm = 0 /\ presses_raised = 0
  /\ loop_pc = "update" /\ frequency = 7000000 /\ taken = 0 /\ n_loops = 0
  /\ iter_after_press = 0
  \* si5351_set_freq(7000000ULL * 100ULL, SI5351_CLK0); drawDisplay();
  /\ si5351_freq = 7000000 * 100
  /\ display_freq = 7000000

\* ------------------------------------------------ update called directly
\* Intervals between two calls of update (ms).
Dts == {40, 70, 110, 140, 5000}
\* Timestamps handed to update when they need not increase.
AnyTimes == {0, 40, 80, 300, 5000}
Detents == {-MaxDetents, 0, 1, MaxDetents}

\* Observer of the scenario "from the start state, three detents of +1 spaced
\* 40 ms": each detent has idi = 40, or is the very first call of update (whose
\* idi is 0, the statics being initialised to its now_ms). Idle calls before
\* the first detent do not leave the start state.
ScenarioStep(det, t) ==
  scen' = IF det = 0
          THEN (IF scen = 0 THEN 0 ELSE -1)
          ELSE IF /\ det = 1
                  /\ scen \in 0..2
                  /\ (~statics_init \/ t - last_detent_ms = 40)
               THEN scen + 1
               ELSE -1

Init ==
  /\ TunerInit /\ now = 0 /\ scen = 0 /\ SysInit /\ VelInit
  /\ start_idi = 0 /\ spin_idi = 0
  /\ walk = <<>>

\* One call of tuner.update(det, t), the clock reading t.
Call(det, t) ==
  /\ ncalls < MaxCalls
  /\ now' = t
  /\ update(det, t)
  /\ ScenarioStep(det, t)
  /\ UNCHANGED <<encVars, swVars, loopVars, velVars, spinVars, walk>>

\* A call dt ms after the previous one (a clock that only advances).
Update(det, dt) == Call(det, now + dt)

Next == \E det \in Detents, dt \in Dts : Update(det, dt)

Spec == Init /\ [][Next]_vars

\* A call with any timestamp, also one earlier than the previous call's.
UpdateAt(det, t) == Call(det, t)

NextAny == \E det \in Detents, t \in AnyTimes : UpdateAt(det, t)

SpecAny == Init /\ [][NextAny]_vars

\* ------------------------------------------- a spin at a constant rate
\* Every threshold of the ladder and of the multiplier, and its two
\* neighbours; a fast interval and a long pause.
SpinIdis ==
  {x \in {up_ms[j] + e : j \in 0..9, e \in {-1, 0, 1}}
         \cup {down_ms[j] + e : j \in 0..9, e \in {-1, 0, 1}}
         \cup {MultNum \div m + e : m \in MultMin..MultMax, e \in {0, 1}}
         \cup {MultFloorMs - 1, MultFloorMs, MultFloorMs + 1, 40, 5000} : x >= 0}
\* The first detent ends on rung 8; the second, start_idi after it, on any of
\* the rungs 8 down to 0.
StartIdis == {40} \cup {down_ms[j] : j \in 1..8}

InitSpin ==
  /\ TunerInit /\ now = 0 /\ scen = 0 /\ SysInit /\ VelInit
  /\ start_idi \in StartIdis /\ spin_idi \in SpinIdis
  /\ walk = <<>>

\* The next detent of the spin: tuner.update(det, now_ms) with det # 0, the
\* first two start_idi apart, every later one spin_idi after the one before.
Spin(det) == Call(det, now + (IF ncalls <= 1 THEN start_idi ELSE spin_idi))

NextSpin == \E det \in {-1, 1} : Spin(det)

SpecSpin == InitSpin /\ [][NextSpin]_vars

\* ------------------------------------------------------------ the program
\* Clock readings of two successive loop iterations differ by one of these.
LoopDts == {40, 200}
Codes == 0..3
Levels == {0, 1}

\* Pin-change interrupt of ENCODER_CLK or ENCODER_DT.
EncoderIrq(code) ==
  /\ n_irq < MaxIrqs
  /\ n_irq' = n_irq + 1
  /\ encoder_callback_enc(code)
  /\ UNCHANGED <<tunerVars, callVars, now, swVars, loopVars, velVars, spinVars, walk>>

\* Pin-change interrupt of ENCODER_SWITCH (edge: 1 rise, 0 fall).
SwitchIrq(edge) ==
  /\ n_edges < MaxEdges
  /\ n_edges' = n_edges + 1
  /\ encoder_callback_sw(edge)
  /\ UNCHANGED <<button_pressed, button_state, hs_sched, hs_r1, hs_r2,
                 n_confirm, presses_raised>>
  /\ UNCHANGED <<tunerVars, callVars, now, encVars, loopVars, velVars, spinVars, walk>>

\* The oldest pending alarm fires: handle_switch runs.
AlarmFire(r1, r2) ==
  /\ alarms # <<>>
  /\ alarms' = Tail(alarms)
  /\ hs_sched' = Head(alarms)
  /\ hs_r1' = r1 /\ hs_r2' = r2
  /\ n_confirm' = n_confirm + 1
  /\ handle_switch(r1, r2)
  /\ presses_raised' = IF r1 = 1 /\ button_state = FALSE
                       THEN presses_raised + 1 ELSE presses_raised
  /\ iter_after_press' = IF r1 = 1 /\ button_state = FALSE
                         THEN 0 ELSE iter_after_press
  /\ n_edges' = n_edges
  /\ UNCHANGED <<loop_pc, frequency, taken, n_loops, si5351_freq, display_freq>>
  /\ UNCHANGED <<tunerVars, callVars, now, encVars, velVars, spinVars, walk>>

\* main(), lines 392-393: now_ms = to_ms_since_boot(...)/2;
\* tuner.update(-encoder_count, now_ms);
LoopUpdate(dt) ==
  /\ loop_pc = "update"
  /\ n_loops < MaxLoops
  /\ now' = now + dt
  /\ update(-encoder_count, now + dt)
  /\ ScenarioStep(-encoder_count, now + dt)
  /\ taken' = taken + encoder_count
  /\ loop_pc' = "clear"
  /\ iter_after_press' = IF button_pressed /\ iter_after_press = 0
                         THEN 1 ELSE iter_after_press
  /\ UNCHANGED <<frequency, n_loops, si5351_freq, display_freq>>
  /\ UNCHANGED <<encVars, swVars, velVars, spinVars, walk>>

\* main(), lines 394-425: encoder_count = 0; frequency = tuner.freqHz;
\* if (update_clock) si5351_set_freq(frequency * 100ULL, SI5351_CLK0);
\* if (update_display) drawDisplay(); update_audio_buffer().
LoopClear ==
  /\ loop_pc = "clear"
  /\ encoder_count' = 0
  /\ frequency' = freqHz
  /\ si5351_freq' = IF update_clock THEN freqHz * 100 ELSE si5351_freq
  /\ display_freq' = IF update_display THEN freqHz ELSE display_freq
  /\ loop_pc' = "update"
  /\ n_loops' = n_loops + 1
  /\ iter_after_press' = IF iter_after_press = 1 THEN 2 ELSE iter_after_press
  /\ taken' = taken
  /\ UNCHANGED <<saved_enc, enc_now, enc_prev, n_irq, produced>>
  /\ UNCHANGED <<tunerVars, callVars, now, swVars, velVars, spinVars, walk>>

\* The decoder and the debouncer share no variable: each is run against the
\* polling loop with the other's interrupt line quiet.
NextEnc ==
  \/ \E code \in Codes : EncoderIrq(code)
  \/ \E dt \in LoopDts : LoopUpdate(dt)
  \/ LoopClear

SpecEnc == Init /\ [][NextEnc]_vars

NextSw ==
  \/ \E edge \in Levels : SwitchIrq(edge)
  \/ \E r1 \in Levels, r2 \in Levels : AlarmFire(r1, r2)
  \/ \E dt \in LoopDts : LoopUpdate(dt)
  \/ LoopClear

SpecSw == Init /\ [][NextSw]_vars

\* --------------------------------------------- a walk of the encoder lines
\* Pin-change interrupt of ENCODER_CLK or ENCODER_DT, the sampled code noted.
WalkIrq(code) ==
  /\ n_irq < MaxIrqs
  /\ n_irq' = n_irq + 1
  /\ encoder_callback_enc(code)
  /\ walk' = Append(walk, code)
  /\ UNCHANGED <<tunerVars, callVars, now, swVars, loopVars, velVars, spinVars>>

NextWalk == \E code \in Codes : WalkIrq(code)

SpecWalk == Init /\ [][NextWalk]_vars

\* ---------------------------------------- RollingVelocity called directly
\* dt handed to RollingVelocity::update (ms): negative, zero and positive.
RvDts == {-100, 0, 50, 100, 500}

\* One call of rv.update(det, dt).
RvUpdate(det, dt) ==
  /\ n_rv < MaxRvCalls
  /\ n_rv' = n_rv + 1
  /\ rv_update(det, dt)
  /\ UNCHANGED <<tunerVars, callVars, now, encVars, swVars, loopVars, spinVars, walk>>

NextVel == \E det \in Detents, dt \in RvDts : RvUpdate(det, dt)

SpecVel == Init /\ [][NextVel]_vars

\* ===================================================== claims on the tuner
Sign(d) == IF d > 0 THEN 1 ELSE -1

\* C1: after any sequence of update calls, whatever the sign and magnitude of
\* detents and whatever the timestamps (also decreasing ones), freqHz lies in
\* [7,000,000, 7,200,000]; a result outside the band is pulled to the nearest
\* bound (no wrap to the other side).
C1_FreqInBand ==
  /\ 7000000 <= freqHz /\ freqHz <= 7200000
  /\ (ncalls > 0 /\ detents # 0) =>
       LET raw == freqHz0 + step * mult * Sign(detents)
       IN /\ raw > 7200000 => freqHz = 7200000
          /\ raw < 7000000 => freqHz = 7000000
          /\ (7000000 <= raw /\ raw <= 7200000) => freqHz = raw

\* C1 witness: a detent of magnitude MaxDetents, at a timestamp earlier than
\* the previous call's, whose raw result above fMax was pulled down to fMax.
C1_Witness ==
  /\ detents = MaxDetents
  /\ freqHz0 + step * mult > 7200000
  /\ freqHz = 7200000
  /\ idi > 5000

\* C4: an idle call update(0, now) with now - last_move_ms > 150 sets current
\* to 0 whatever rung it was on; with now - last_move_ms <= 150 it leaves
\* current as it was.
C4_IdleDwell ==
  [][detents' = 0 =>
       LET lm == IF statics_init THEN last_move_ms ELSE call_ms'
       IN IF call_ms' - lm > 150 THEN current' = 0 ELSE current' = current]_vars

\* C4 witness: an idle call 180 ms after the last move took current from rung
\* 8 to 0.
C4_Witness ==
  /\ ncalls > 0 /\ detents = 0
  /\ call_ms - last_move_ms > 150
  /\ current0 = 8 /\ current = 0

\* C5 (as the spec states it): a non-zero update whose idi is at or below
\* every up_ms[i] ends with step_index = 9, the coarsest rung, and not below
\* the rung it began on.
C5_ReachesNine ==
  (ncalls > 0 /\ detents # 0 /\ \A r \in 0..9 : idi <= up_ms[r]) =>
    (current = 9 /\ current >= current0)

\* C6: a non-zero update inside the turbo window (now < turbo_until_ms) uses
\* steps[current + 1], current being the rung its own classification chose,
\* when current < 9; every other non-zero update uses steps[current]. The
\* override leaves current alone.
C6_TurboStep ==
  [][detents' # 0 =>
       /\ (call_ms' < turbo_until_ms' /\ current' < 9) => step' = steps[current' + 1]
       /\ ~(call_ms' < turbo_until_ms' /\ current' < 9) => step' = steps[current']]_vars

\* C6 witness: calls 1..3 were fast detents (the third armed turbo), call 4 is
\* a detent inside the window opened by call 3 and used the next rung's step.
C6_Witness ==
  /\ ncalls = 4 /\ detents # 0
  /\ fast_streak = 0 /\ idi = 70
  /\ turbo_until_ms = (call_ms - idi) + 250
  /\ call_ms < turbo_until_ms
  /\ current < 9 /\ step = steps[current + 1]

C8_TurboArming ==
  /\ [][detents' # 0 =>
          IF idi' < 70
          THEN IF fast_streak = 2
               THEN turbo_until_ms' = call_ms' + 250 /\ fast_streak' = 0
               ELSE turbo_until_ms' = turbo_until_ms /\ fast_streak' = fast_streak + 1
          ELSE turbo_until_ms' = turbo_until_ms /\ fast_streak' = 0]_vars
  /\ [](fast_streak \in 0..2)
  /\ [](scen \in 1..2 => turbo_until_ms = 0 /\ fast_streak = scen /\ current > 0)
  /\ [](scen = 3 => /\ turbo_until_ms = call_ms + 250
                    /\ current > 0
                    /\ freqHz > 7100000 /\ freqHz <= 7200000)

\* C8 witness: the scenario's third detent, after an idle first call.
C8_Witness ==
  /\ scen = 3 /\ ncalls = 4
  /\ turbo_until_ms = call_ms + 250 /\ fast_streak = 0

\* C14: on a non-zero update with interval idi begun on rung c, step_index is
\* walked up to the first rung u >= c with u = 9 or idi > up_ms[u + 1], then
\* down to the first rung d <= u with d = 0 or idi < down_ms[d]. So an idi with
\* up_ms[c + 1] < idi < down_ms[c] leaves it at c, and the rung it ends on is
\* 0 or has idi < down_ms of it. (The witness is a move of several rungs.)
C14_Classify ==
  [][detents' # 0 =>
       LET c == current
           i == idi'
           u == CHOOSE x \in c..9 :
                  /\ x = 9 \/ i > up_ms[x + 1]
                  /\ \A y \in c..(x - 1) : i <= up_ms[y + 1]
           d == CHOOSE x \in 0..u :
                  /\ x = 0 \/ i < down_ms[x]
                  /\ \A y \in (x + 1)..u : i >= down_ms[y]
       IN /\ current' = d
          /\ (c < 9 /\ up_ms[c + 1] < i /\ i < down_ms[c]) => current' = c
          /\ current' = 0 \/ i < down_ms[current']]_vars

\* C14 witness: one detent 40 ms after the previous one took the tuner from
\* rung 1 to rung 8.
C14_Witness ==
  /\ detents # 0 /\ idi = 40 /\ current0 = 1 /\ current = 8

\* C15: of two successive non-zero updates with the same idi, the second
\* leaves step_index where the first put it, whatever rung the first began
\* on and whether or not idi sits on a threshold.
C15_FixedPoint ==
  [][(ncalls >= 1 /\ detents # 0 /\ detents' # 0 /\ idi' = idi) =>
       current' = current]_vars

\* C15 witness: a spin at idi = 160, which is up_ms[3] and down_ms[4] at once,
\* begun on rung 8: the first detent at that rate went to rung 3 and the two
\* after it stayed there.
C15_Witness ==
  /\ ncalls = 5 /\ start_idi = 40 /\ spin_idi = 160 /\ idi = 160
  /\ detents # 0 /\ current0 = 3 /\ current = 3

\* C16: current is in 0..9 in every state, and every index at which update
\* reads steps, up_ms or down_ms is in 0..9.
C16_IndexRange ==
  /\ current \in 0..9
  /\ \A k \in reads : 0 <= k /\ k <= 9

\* C16 witness: a detent with idi = 0 begun on rung 0: the promotion loop read
\* up_ms[1] to up_ms[9] and stopped on rung 9 without reading up_ms[10], the
\* demotion loop read down_ms[9] and down_ms[8].
C16_Witness ==
  /\ detents # 0 /\ idi = 0 /\ current0 = 0 /\ current = 8
  /\ reads = 1..9

\* C17: an idle call update(0, now) leaves freqHz, last_move_ms,
\* last_detent_ms, turbo_until_ms and fast_streak as they were (the statics
\* once the first call has created them); a non-zero update stores its time in
\* last_detent_ms and measures its idi from the time stored there (for a
\* timestamp not before it), so idle calls in between do not change the idi
\* of the next non-zero update.
C17_IdleFrame ==
  /\ [][(detents' = 0 /\ statics_init) =>
          /\ freqHz' = freqHz
          /\ last_move_ms' = last_move_ms
          /\ last_detent_ms' = last_detent_ms
          /\ turbo_until_ms' = turbo_until_ms
          /\ fast_streak' = fast_streak]_vars
  /\ [][(detents' = 0 /\ ~statics_init) =>
          /\ freqHz' = freqHz
          /\ turbo_until_ms' = turbo_until_ms
          /\ fast_streak' = fast_streak]_vars
  /\ [][detents' # 0 =>
          /\ last_detent_ms' = call_ms'
          /\ (statics_init /\ call_ms' >= last_detent_ms) =>
                idi' = call_ms' - last_detent_ms]_vars

\* C17 witness: two fast detents, then an idle call 4,960 ms later: it reset
\* current from 8 to 0 and left the streak of 2, the frequency and the time
\* of the last detent.
C17_Witness ==
  /\ ncalls = 3 /\ detents = 0
  /\ current0 = 8 /\ current = 0
  /\ fast_streak = 2 /\ freqHz = freqHz0 /\ freqHz # 7100000
  /\ call_ms - last_detent_ms = 4960

\* C18: the multiplier of a non-zero update is in 1..8, is not above the
\* multiplier of any shorter interval, and is the same for every idi at or
\* below 50 ms.
C18_Multiplier ==
  (ncalls > 0 /\ detents # 0) =>
    /\ 1 <= mult /\ mult <= 8
    /\ \A j \in SpinIdis : j <= idi => multiplier_from_idi(j) >= mult
    /\ \A j \in SpinIdis : j >= idi => multiplier_from_idi(j) <= mult
    /\ idi <= 50 => mult = multiplier_from_idi(50)

\* C18 witness: a detent 1 ms after the previous one got the multiplier of
\* the floor, 300 / 50 = 6.
C18_Witness ==
  /\ detents # 0 /\ ncalls = 3 /\ idi = 1 /\ spin_idi = 1 /\ mult = 6

C21_LadderOrder ==
  /\ (ncalls > 0 /\ detents # 0) => \E i \in 0..9 : step = steps[i]
  /\ \A i \in 0..8 : steps[i] < steps[i + 1]
  /\ \A i \in 1..8 : up_ms[i] >= up_ms[i + 1]
  /\ \A i \in 0..8 : down_ms[i] >= down_ms[i + 1]
  /\ \A i \in 0..9 : down_ms[i] >= up_ms[i]

\* C21 witness: a detent 40 ms after the previous one, begun on rung 0, was
\* promoted past every up_ms threshold it read (up_ms[1] to up_ms[8]) and
\* stopped at up_ms[9]; down_ms[8] kept it on rung 8, whose step it used.
C21_Witness ==
  /\ ncalls = 3 /\ detents # 0 /\ idi = 40
  /\ current0 = 0 /\ current = 8 /\ reads = 1..9
  /\ step = steps[8]

\* C22: between calls of update fast_streak is 0, 1 or 2. turbo_until_ms is
\* written only by the non-zero update with idi < 70 that finds the streak at
\* 2, which sets it to its now_ms + 250 and the streak to 0: idle calls, slow
\* detents and rung changes leave it. It starts at 0, so it is 0 or the time
\* of a fast detent plus 250.
C22_TurboWrites ==
  /\ [](fast_streak \in {0, 1, 2})
  /\ [](turbo_until_ms = 0 \/ turbo_until_ms >= 250)
  /\ [][turbo_until_ms' # turbo_until_ms =>
          /\ detents' # 0 /\ idi' < 70
          /\ fast_streak = 2 /\ fast_streak' = 0
          /\ turbo_until_ms' = call_ms' + 250]_vars
  /\ [][(detents' = 0 \/ idi' >= 70 \/ fast_streak < 2) =>
          turbo_until_ms' = turbo_until_ms]_vars

\* C22 witness: turbo was armed by the third fast detent, at 80 ms; two calls
\* later a slow detent at 5,000 ms, begun on rung 0, found and left
\* turbo_until_ms at 330.
C22_Witness ==
  /\ ncalls = 5 /\ detents # 0 /\ idi >= 70 /\ call_ms = 5000
  /\ current0 = 0 /\ fast_streak = 0
  /\ turbo_until_ms = 330

\* =================================== claims on the decoder and the debouncer
\* C2: an invocation of the quadrature handler changes encoder_count by +1 on
\* a forward pair (2->3, 3->1, 1->0, 0->2), by -1 on a reverse pair (3->2,
\* 2->0, 0->1, 1->3), and not at all on a repeated code or a skipped code
\* (0<->3, 1<->2).
C2_GrayOnly ==
  [][n_irq' # n_irq =>
       LET t == <<saved_enc, enc_now'>>
       IN encoder_count' - encoder_count =
            IF t \in {<<2, 3>>, <<3, 1>>, <<1, 0>>, <<0, 2>>} THEN 1
            ELSE IF t \in {<<3, 2>>, <<2, 0>>, <<0, 1>>, <<1, 3>>} THEN -1
            ELSE 0]_vars

\* C2 witness: the skipped code 0->3 was discarded and the reverse pair 3->2
\* after it counted -1.
C2_Witness ==
  /\ n_irq = 2 /\ enc_prev = 3 /\ enc_now = 2
  /\ produced = -1 /\ encoder_count = -1

\* C20: after every invocation of the quadrature handler the stored previous
\* code is the code it sampled, whether it counted the transition, found the
\* code repeated or discarded a skipped code; so the invocation after a
\* discarded transition to c counts a neighbour transition from c.
C20_SavedIsSample ==
  /\ [][n_irq' # n_irq => saved_enc' = enc_now']_vars
  /\ [][(/\ n_irq' # n_irq
          /\ n_irq > 0
          /\ <<enc_prev, enc_now>> \in {<<0, 3>>, <<3, 0>>, <<1, 2>>, <<2, 1>>}
          /\ <<enc_now, enc_now'>> \in {<<2, 3>>, <<3, 1>>, <<1, 0>>, <<0, 2>>,
                                        <<3, 2>>, <<2, 0>>, <<0, 1>>, <<1, 3>>})
         => encoder_count' # encoder_count]_vars

\* C20 witness: the skipped code 0->3 was discarded, 3 was stored, and the
\* forward pair 3->1 after it counted +1 and stored 1.
C20_Witness ==
  /\ n_irq = 2 /\ enc_prev = 3 /\ enc_now = 1 /\ saved_enc = 1
  /\ produced = 1 /\ encoder_count = 1

\* C23: no pair of codes is in both transition tables, and (p, n) counts +1
\* exactly when (n, p) counts -1. So a walk of sampled codes that returns
\* along the path it went out on (the codes from the start code 0 on read the
\* same backwards) leaves encoder_count at its starting value 0; the forward
\* cycle 0->2->3->1->0 adds exactly 4 and the reverse cycle 0->1->3->2->0
\* subtracts exactly 4.
C23_Mirror ==
  LET path == <<0>> \o walk
      len == Len(path)
  IN /\ \A p \in 0..3, n \in 0..3 :
          /\ ~(IsForward(p, n) /\ IsReverse(p, n))
          /\ IsForward(p, n) <=> IsReverse(n, p)
     /\ (\A k \in 1..len : path[k] = path[len + 1 - k]) => encoder_count = 0
     /\ walk = <<2, 3, 1, 0>> => encoder_count = 4
     /\ walk = <<1, 3, 2, 0>> => encoder_count = -4

\* C23 witness: the walk 0->2->3->2->0 went two forward transitions out and
\* came back by their two mirror transitions: encoder_count is 0 again.
C23_Witness ==
  /\ walk = <<2, 3, 2, 0>> /\ n_irq = 4
  /\ encoder_count = 0 /\ saved_enc = 0

\* C3 (as the spec states it): no tick is lost or counted twice: whenever the
\* loop is between two drains, the counts it has taken plus encoder_count
\* equal the decoder's net sum.
C3_NoTickLost == loop_pc = "update" => taken + encoder_count = produced

\* C9: handle_switch is a two-state latch driven by the pin level it reads:
\* pressed and latch released -> latch pressed and a press event raised;
\* released and latch pressed -> latch released; otherwise nothing changes,
\* whatever edge scheduled the confirmation. button_pressed goes from false to
\* true only together with the latch going from released to pressed.
C9_LevelLatch ==
  /\ [][n_confirm' # n_confirm =>
          IF hs_r1' = 1 /\ ~button_state
          THEN button_state' /\ button_pressed'
          ELSE IF hs_r2' = 0 /\ button_state
               THEN ~button_state' /\ button_pressed' = button_pressed
               ELSE button_state' = button_state /\ button_pressed' = button_pressed]_vars
  /\ [][(button_pressed' /\ ~button_pressed) => (~button_state /\ button_state')]_vars

\* C9 witness: a confirmation scheduled by a falling edge read the pin pressed
\* while the latch was already pressed: a redundant, stale confirmation that
\* changed nothing (one press event so far).
C9_Witness ==
  /\ n_confirm = 2 /\ hs_sched = 0 /\ hs_r1 = 1 /\ hs_r2 = 1
  /\ button_state /\ button_pressed /\ presses_raised = 1

\* C10 (as the spec states it): once a loop iteration that began after a press
\* event was raised has completed, the event has been consumed: button_pressed
\* is back to no-event.
C10_PressConsumed == iter_after_press = 2 => ~button_pressed

\* ============================================ claims on the polling loop
\* C11 (as the spec states it): an iteration of the polling loop in which the
\* tuner's frequency changed has, once completed, programmed the synthesizer
\* with the new value and redrawn the display with it.
C11_SinksFollow ==
  (loop_pc = "update" /\ n_loops > 0 /\ freqHz # freqHz0) =>
    (si5351_freq = freqHz * 100 /\ display_freq = freqHz)

\* ================================================ claims on RollingVelocity
\* C12 (as the spec states it): RollingVelocity::update(0, dt), for any dt,
\* returns the previous smoothed value and leaves v_ema as it was.
C12_ZeroIdempotent ==
  (n_rv > 0 /\ rv_detents = 0) => (v_ema = v_ema0 /\ rv_ret = v_ema0)

\* C13: RollingVelocity::update(detents, dt) with dt <= 0 returns the previous
\* smoothed value and leaves v_ema as it was, whatever detents is; and v_ema,
\* which starts at 0, is never negative after any sequence of updates.
C13_GuardAndSign ==
  /\ (n_rv > 0 /\ rv_dt <= 0) => (v_ema = v_ema0 /\ rv_ret = v_ema0)
  /\ v_ema >= 0 /\ rv_ret >= 0

\* C13 witness: after updates that moved v_ema above 0, one of them with
\* negative detents, an update with non-zero detents and dt < 0 returned the
\* smoothed value it found.
C13_Witness ==
  /\ n_rv = MaxRvCalls /\ rv_dt < 0 /\ rv_detents < 0
  /\ v_ema0 > 0 /\ v_ema = v_ema0 /\ rv_ret = v_ema0

====
